---- MODULE Spec2Model ----
(***************************************************************************)
(* The tactics board's pointer gesture controller: the nav lock store, the *)
(* drawing store, the player store, the <Annotations /> component and the  *)
(* <SoccerSceneContent /> component, as one state machine whose steps are  *)
(* the DOM events the components handle.                                   *)
(*                                                                         *)
(* A handler reads the values of the render it was created in (its         *)
(* closure, the record cl), writes React state through setters (batched:   *)
(* the in-flight record st carries the pending values) and reads and       *)
(* writes refs at once (also in st).  After the handlers of one DOM event  *)
(* have run the components re-render and their effects run (Commit).       *)
(***************************************************************************)
EXTENDS Integers, Sequences, FiniteSets, TLC

\* ------------------------------------------------------------ bounds
\* Ground points the pointer can reach: (x, 0, z) with 0 <= x, z <= MaxCoord.
MaxCoord == 0
\* Number of annotation ids minted in one run (ticks of Date.now()).
MaxAnnotations == 2
\* The same, in the runs with releases at every level.
MaxGestureAnnotations == 1

\* The annotations created in a run of key presses.
MaxKeyAnnotations == 3
\* The ground coordinates an annotation can be stored at: 0 <= x <= MaxX,
\* 0 <= z <= MaxZ.
MaxX == 12
MaxZ == 8
\* Pointer moves counted within one press (more are counted as MaxMoves).
MaxMoves == 2
\* Pointer presses in one run, in the runs that are bounded by them.
MaxPresses == 4

\* ------------------------------------------------------------ values
null == "null"

Vec(x, y, z) == [x |-> x, y |-> y, z |-> z]

\* screenToPlane / intersectPlane found no point (the ray misses the plane).
NoPoint == [none |-> TRUE]

Points == {Vec(i, 0, i) : i \in 0..MaxCoord}

ShapeTools == {"rectangle", "square", "circle", "arrow"}

DrawingTool == ShapeTools \cup {"erase", "select"}

Buttons == {0, 2}

AnnIdTable == <<"ann_1", "ann_2", "ann_3", "ann_4", "ann_5", "ann_6">>

INITIAL_PLAYERS ==
  << [id |-> "A6", teamId |-> "A", name |-> "Player 6", number |-> 6,
      role |-> "Defensive Midfielder", position |-> Vec(-15, 0, 0)],
     [id |-> "A11", teamId |-> "A", name |-> "Player 11", number |-> 9,
      role |-> "Striker", position |-> Vec(10, 0, 0)] >>

PlayerIds == {INITIAL_PLAYERS[i].id : i \in DOMAIN INITIAL_PLAYERS}

\* The options a team of the given colour starts with.
defaultTeamOptions(color) ==
  [ color |-> color, showPassingNet |-> FALSE, passingNetPlayerIds |-> << >>,
    showCoveredArea |-> FALSE, coveredAreaPlayerIds |-> << >>,
    showPlayerNames |-> TRUE, showPlayerRoles |-> TRUE,
    showPlayerNumbers |-> TRUE ]

\* ------------------------------------------------------------ state
VARIABLES
  \* NavLockContext
  isNavLocked,
  \* DrawingContext
  annotations, activeTool,
  \* PlayersContext
  players, selectedPlayerId,
  \* TeamOptionsContext
  teamAOptions, teamBOptions,
  \* <Annotations />: state
  drawingId, selectedAnnId, isSelecting, isAlt, selectionDragMode,
  \* <Annotations />: refs
  prevNavLockRef, prevNavLockBeforeDrawRef, didLockForDrawRef,
  annGlobalDragAttachedRef, selectionDragRef,
  \* <SoccerSceneContent />: state and refs
  activeDragId, prevNavLockBeforePlayerDragRef, didLockForPlayerDragRef,
  sceneGlobalDragAttachedRef,
  \* identity of the memoized window handlers of each component, and the
  \* annotation the drawing branch of handleGlobalMouseMove finds in the
  \* annotations array it closed over
  annHandlers, sceneHandlers, capturedDrawAnn,
  \* the window's mousemove / mouseup listeners
  listeners,
  \* the pointer press in progress (the button held, and whether the ray of
  \* its pointer-down hit the field group), and the clock of Date.now()
  pressed, clock,
  \* observers: Space toggled the lock since the last state at rest; the
  \* lock is true by the user's last toggle, made between gestures; the lock
  \* before the current selection was made by right-clicks from rest; the
  \* number of pointer presses of the run, where runs are bounded by it
  manualToggle, userLock, selLock, presses,
  \* observer: the key-down that led to this state (the key, whether the
  \* focus was in an input, the state before it and, for a Space press that
  \* follows a Space press outside inputs, the lock before the first one)
  keyed

vars == << isNavLocked, annotations, activeTool, players, selectedPlayerId,
           teamAOptions, teamBOptions,
           drawingId, selectedAnnId, isSelecting, isAlt, selectionDragMode,
           prevNavLockRef, prevNavLockBeforeDrawRef, didLockForDrawRef,
           annGlobalDragAttachedRef, selectionDragRef,
           activeDragId, prevNavLockBeforePlayerDragRef, didLockForPlayerDragRef,
           sceneGlobalDragAttachedRef,
           annHandlers, sceneHandlers, capturedDrawAnn,
           listeners, pressed, clock, manualToggle, userLock, selLock, presses,
           keyed >>

\* The state as one record: what a render closes over, and what the handlers
\* of one event work on.
Cur ==
  [ isNavLocked |-> isNavLocked, annotations |-> annotations,
    activeTool |-> activeTool, players |-> players,
    selectedPlayerId |-> selectedPlayerId,
    teamAOptions |-> teamAOptions, teamBOptions |-> teamBOptions,
    drawingId |-> drawingId, selectedAnnId |-> selectedAnnId,
    isSelecting |-> isSelecting, isAlt |-> isAlt,
    selectionDragMode |-> selectionDragMode,
    prevNavLockRef |-> prevNavLockRef,
    prevNavLockBeforeDrawRef |-> prevNavLockBeforeDrawRef,
    didLockForDrawRef |-> didLockForDrawRef,
    annGlobalDragAttachedRef |-> annGlobalDragAttachedRef,
    selectionDragRef |-> selectionDragRef,
    activeDragId |-> activeDragId,
    prevNavLockBeforePlayerDragRef |-> prevNavLockBeforePlayerDragRef,
    didLockForPlayerDragRef |-> didLockForPlayerDragRef,
    sceneGlobalDragAttachedRef |-> sceneGlobalDragAttachedRef,
    annHandlers |-> annHandlers, sceneHandlers |-> sceneHandlers,
    capturedDrawAnn |-> capturedDrawAnn,
    listeners |-> listeners, pressed |-> pressed, clock |-> clock ]

Become(c) ==
  /\ isNavLocked' = c.isNavLocked
  /\ annotations' = c.annotations
  /\ activeTool' = c.activeTool
  /\ players' = c.players
  /\ selectedPlayerId' = c.selectedPlayerId
  /\ teamAOptions' = c.teamAOptions
  /\ teamBOptions' = c.teamBOptions
  /\ drawingId' = c.drawingId
  /\ selectedAnnId' = c.selectedAnnId
  /\ isSelecting' = c.isSelecting
  /\ isAlt' = c.isAlt
  /\ selectionDragMode' = c.selectionDragMode
  /\ prevNavLockRef' = c.prevNavLockRef
  /\ prevNavLockBeforeDrawRef' = c.prevNavLockBeforeDrawRef
  /\ didLockForDrawRef' = c.didLockForDrawRef
  /\ annGlobalDragAttachedRef' = c.annGlobalDragAttachedRef
  /\ selectionDragRef' = c.selectionDragRef
  /\ activeDragId' = c.activeDragId
  /\ prevNavLockBeforePlayerDragRef' = c.prevNavLockBeforePlayerDragRef
  /\ didLockForPlayerDragRef' = c.didLockForPlayerDragRef
  /\ sceneGlobalDragAttachedRef' = c.sceneGlobalDragAttachedRef
  /\ annHandlers' = c.annHandlers
  /\ sceneHandlers' = c.sceneHandlers
  /\ capturedDrawAnn' = c.capturedDrawAnn
  /\ listeners' = c.listeners
  /\ pressed' = c.pressed
  /\ clock' = c.clock

\* ------------------------------------------------------------ stores
Merge(a, patch) ==
  [k \in DOMAIN a \cup DOMAIN patch |->
     IF k \in DOMAIN patch THEN patch[k] ELSE a[k]]

NoAnn == [none |-> TRUE]

\* Array.prototype.find: the first element with that id, or undefined.
FindAnn(anns, id) ==
  IF \E i \in DOMAIN anns : anns[i].id = id
  THEN anns[CHOOSE i \in DOMAIN anns :
              /\ anns[i].id = id
              /\ \A j \in DOMAIN anns : anns[j].id = id => i <= j]
  ELSE NoAnn

setNavLock(st, locked) == [st EXCEPT !.isNavLocked = locked]

toggleNavLock(st) == [st EXCEPT !.isNavLocked = ~st.isNavLocked]

addAnnotation(st, ann) == [st EXCEPT !.annotations = Append(st.annotations, ann)]

\* An update that patches every entry of the list.
updateEveryAnnotation(st, id, patch) ==
  [st EXCEPT !.annotations =
     [i \in DOMAIN st.annotations |-> Merge(st.annotations[i], patch)]]

updateAnnotation(st, id, patch) ==
  [st EXCEPT !.annotations =
     [i \in DOMAIN st.annotations |->
        IF st.annotations[i].id = id
        THEN Merge(st.annotations[i], patch)
        ELSE st.annotations[i]]]

\* A filter with the test inverted: it keeps the annotation and drops the
\* others.
removeOtherAnnotations(st, id) ==
  [st EXCEPT !.annotations = SelectSeq(st.annotations, LAMBDA a : a.id = id)]

removeAnnotation(st, id) ==
  [st EXCEPT !.annotations = SelectSeq(st.annotations, LAMBDA a : a.id # id)]

clearAnnotations(st) == [st EXCEPT !.annotations = << >>]

setActiveTool(st, tool) == [st EXCEPT !.activeTool = tool]

\* An update that drops the entry it should patch.
updatePlayerDropsEntry(st, id, updates) ==
  [st EXCEPT !.players = SelectSeq(st.players, LAMBDA p : p.id # id)]

updatePlayer(st, id, updates) ==
  [st EXCEPT !.players =
     [i \in DOMAIN st.players |->
        IF st.players[i].id = id
        THEN Merge(st.players[i], updates)
        ELSE st.players[i]]]

updatePlayerPosition(st, id, position) ==
  [st EXCEPT !.players =
     [i \in DOMAIN st.players |->
        IF st.players[i].id = id
        THEN Merge(st.players[i], [position |-> position])
        ELSE st.players[i]]]

\* ------------------------------------------------------------ TeamOptionsContext
OptionsOf(team) == IF team = "A" THEN "teamAOptions" ELSE "teamBOptions"

Includes(ids, id) == \E i \in DOMAIN ids : ids[i] = id

setTeamOptionChange(st, team, updates) ==
  [st EXCEPT ![OptionsOf(team)] = Merge(@, updates)]

\* A toggle that appends the id whether or not the list has it.
togglePlayerSelectionAppend(st, team, feature, playerId) ==
  LET key == IF feature = "passingNet" THEN "passingNetPlayerIds"
             ELSE "coveredAreaPlayerIds"
  IN [st EXCEPT ![OptionsOf(team)] =
        Merge(@, key :> Append(@[key], playerId))]

togglePlayerSelection(st, team, feature, playerId) ==
  LET key == IF feature = "passingNet" THEN "passingNetPlayerIds"
             ELSE "coveredAreaPlayerIds"
      currentIds == st[OptionsOf(team)][key]
      newIds == IF Includes(currentIds, playerId)
                THEN SelectSeq(currentIds, LAMBDA id : id # playerId)
                ELSE Append(currentIds, playerId)
  IN [st EXCEPT ![OptionsOf(team)] = Merge(@, key :> newIds)]

\* ------------------------------------------------------------ geometry
\* A sum that loses the z component of its second argument.
AddWithoutZ(u, v) == Vec(u.x + v.x, u.y + v.y, u.z)

Add(u, v) == Vec(u.x + v.x, u.y + v.y, u.z + v.z)

Sub(u, v) == Vec(u.x - v.x, u.y - v.y, u.z - v.z)

Abs(n) == IF n < 0 THEN -n ELSE n

Max(a, b) == IF a >= b THEN a ELSE b

Min(a, b) == IF a <= b THEN a ELSE b

\* Lengths are square roots; a length is held as 100 times its square, so
\* that Math.max(0.1, length) is Max(1, LengthSq100).
LengthSq100(v) == 100 * (v.x * v.x + v.y * v.y + v.z * v.z)

\* The values a coordinate can hold in this model: an integer grid on the
\* ground.  A pointer position whose result falls outside it (or is no
\* integer) is not among the inputs.
InWorld(v) ==
  /\ DOMAIN v = {"x", "y", "z"}
  /\ v.x \in 0..MaxX
  /\ v.y = 0
  /\ v.z \in 0..MaxZ

Inexact == [inexact |-> TRUE]

RECURSIVE Gcd(_, _)
Gcd(a, b) == IF b = 0 THEN a ELSE Gcd(b, a % b)

\* Math.atan2(z, x): the angle is held as the primitive integer direction
\* (dx, dz) it points to; atan2(0, 0) is 0, the direction of (1, 0).
Atan2(z, x) ==
  IF x = 0 /\ z = 0 THEN [dx |-> 1, dz |-> 0]
  ELSE LET g == Gcd(Abs(x), Abs(z)) IN [dx |-> x \div g, dz |-> z \div g]

Angle0 == Atan2(0, 0)

\* from + len * (cos ang, sin ang), y as given: the grid point at squared
\* distance lenSq100 / 100 from `from' in direction ang, if there is one.
PolarPoint(from, lenSq100, ang, y) ==
  LET cand == { Vec(i, y, j) : i \in (from.x - 2 * MaxCoord - 2)..(from.x + 2 * MaxCoord + 2),
                               j \in (from.z - 2 * MaxCoord - 2)..(from.z + 2 * MaxCoord + 2) }
      ok(q) == /\ 100 * ((q.x - from.x) * (q.x - from.x) + (q.z - from.z) * (q.z - from.z)) = lenSq100
               /\ (q.x - from.x) * ang.dz - (q.z - from.z) * ang.dx = 0
               /\ \/ lenSq100 = 0
                  \/ (q.x - from.x) * ang.dx + (q.z - from.z) * ang.dz > 0
  IN IF \E q \in cand : ok(q) THEN CHOOSE q \in cand : ok(q) ELSE Inexact

\* The erase tool's hit test of one annotation at ground point p
\* (threshold = 1.0).
HitTest(a, p) ==
  IF a.type \in {"rectangle", "square"}
  THEN LET minX == Min(a.start.x, a.end.x)
           maxX == Max(a.start.x, a.end.x)
           minZ == Min(a.start.z, a.end.z)
           maxZ == Max(a.start.z, a.end.z)
       IN p.x >= minX /\ p.x <= maxX /\ p.z >= minZ /\ p.z <= maxZ
  ELSE IF a.type = "circle"
  THEN \* distance(p, center) <= radius + 0.25
       LET d2 == (p.x - a.center.x) * (p.x - a.center.x)
                 + (p.z - a.center.z) * (p.z - a.center.z)
           l == 1600 * d2 - 16 * a.radius - 100
       IN \/ 100 * d2 <= a.radius
          \/ l <= 0
          \/ l * l <= 6400 * a.radius
  ELSE IF a.type = "arrow"
  THEN \* distPointToSegment(from, to, p) <= 0.5
       LET apx == p.x - a.from.x
           apz == p.z - a.from.z
           abx == a.to.x - a.from.x
           abz == a.to.z - a.from.z
           n == apx * abx + apz * abz
           dn == abx * abx + abz * abz
           ap2 == apx * apx + apz * apz
           bp2 == (p.x - a.to.x) * (p.x - a.to.x) + (p.z - a.to.z) * (p.z - a.to.z)
       IN IF dn = 0 \/ n <= 0 THEN 4 * ap2 <= 1
          ELSE IF n >= dn THEN 4 * bp2 <= 1
          ELSE 4 * (ap2 * dn - n * n) <= dn
  ELSE FALSE

\* ------------------------------------------------------------ <Annotations />
NoDrag == [none |-> TRUE]

beginDrawNavLock(cl, st) ==
  IF ~st.didLockForDrawRef
  THEN [ (IF ~cl.isNavLocked THEN setNavLock(st, TRUE) ELSE st)
           EXCEPT !.prevNavLockBeforeDrawRef = cl.isNavLocked,
                  !.didLockForDrawRef = TRUE ]
  ELSE st

endDrawNavLock(st) ==
  IF st.didLockForDrawRef
  THEN [ (IF ~st.prevNavLockBeforeDrawRef THEN setNavLock(st, FALSE) ELSE st)
           EXCEPT !.didLockForDrawRef = FALSE ]
  ELSE st

\* window keydown / keyup listeners of <Annotations />
onKeyDown(cl, st, key) ==
  LET s1 == IF key = "Alt" THEN [st EXCEPT !.isAlt = TRUE] ELSE st
  IN IF key \in {"Delete", "Backspace"} /\ cl.selectedAnnId # null
     THEN [ removeAnnotation(s1, cl.selectedAnnId) EXCEPT !.selectedAnnId = null ]
     ELSE s1

onKeyUp(st, key) ==
  IF key = "Alt" THEN [st EXCEPT !.isAlt = FALSE] ELSE st

\* The rectangle / square resize of updateSelectionAt: half-extents from the
\* pointer in the rectangle's rotated local frame, anchored at the centre.
\* Done on doubled coordinates (the centre may lie between grid points).
RectResizePatch(start, end, rot, shapeType, p) ==
  LET c2x == start.x + end.x
      c2z == start.z + end.z
      l2x == 2 * p.x - c2x
      l2z == 2 * p.z - c2z
      \* cos(-rot) = rot.dx, sin(-rot) = -rot.dz when rot is a multiple of 90 degrees
      lx2 == l2x * rot.dx + l2z * rot.dz
      lz2 == l2z * rot.dx - l2x * rot.dz
      w2 == Abs(lx2)
      h2 == Abs(lz2)
      halfW2 == IF shapeType = "square" THEN Max(w2, h2) ELSE w2
      halfH2 == IF shapeType = "square" THEN Max(w2, h2) ELSE h2
  IN IF \/ rot.dx * rot.dx + rot.dz * rot.dz # 1
        \/ w2 = 0 \/ h2 = 0
        \/ (c2x - halfW2) % 2 # 0 \/ (c2z - halfH2) % 2 # 0
     THEN [start |-> Inexact, end |-> Inexact]
     ELSE [start |-> Vec((c2x - halfW2) \div 2, start.y, (c2z - halfH2) \div 2),
           end |-> Vec((c2x + halfW2) \div 2, end.y, (c2z + halfH2) \div 2)]

updateSelectionAt(st, p) ==
  LET d == st.selectionDragRef IN
  IF d = NoDrag THEN st
  ELSE
  LET delta == Sub(p, d.startPointer) IN
  IF d.shapeType = "arrow"
  THEN IF d.mode = "arrow-from"
       THEN updateAnnotation(st, d.annId, [from |-> Vec(p.x, d.initialFrom.y, p.z)])
       ELSE IF d.mode = "arrow-to"
       THEN updateAnnotation(st, d.annId, [to |-> Vec(p.x, d.initialTo.y, p.z)])
       ELSE IF d.mode = "move"
       THEN updateAnnotation(st, d.annId,
              [from |-> Add(d.initialFrom, delta), to |-> Add(d.initialTo, delta)])
       ELSE IF d.mode = "rotate"
       THEN updateAnnotation(st, d.annId,
              [to |-> PolarPoint(d.initialFrom, d.initialLength,
                                 Atan2(p.z - d.initialFrom.z, p.x - d.initialFrom.x),
                                 d.initialTo.y)])
       ELSE st
  ELSE IF d.shapeType = "circle"
  THEN IF d.mode = "resize"
       THEN updateAnnotation(st, d.annId,
              [radius |-> Max(1, LengthSq100(Sub(p, d.initialCenter)))])
       ELSE updateAnnotation(st, d.annId, [center |-> Add(d.initialCenter, delta)])
  ELSE IF d.mode = "rotate"
       THEN updateAnnotation(st, d.annId,
              [rotation |-> Atan2(2 * p.z - (d.initialStart.z + d.initialEnd.z),
                                  2 * p.x - (d.initialStart.x + d.initialEnd.x))])
       ELSE IF d.mode = "resize"
       THEN updateAnnotation(st, d.annId,
              RectResizePatch(d.initialStart, d.initialEnd, d.initialRotation,
                              d.shapeType, p))
       ELSE updateAnnotation(st, d.annId,
              [start |-> Add(d.initialStart, delta), end |-> Add(d.initialEnd, delta)])

\* A draw update that moves the first corner instead of the second.
applyDrawAtStart(st, ann, p) ==
  IF ann = NoAnn THEN st ELSE updateAnnotation(st, ann.id, [start |-> p])

\* The shape-specific update of a draw in progress (ann: the annotation the
\* handler found under drawingId in the annotations it closed over).
applyDrawAt(st, ann, p) ==
  IF ann = NoAnn THEN st
  ELSE IF ann.type \in {"rectangle", "square"}
  THEN updateAnnotation(st, ann.id, [end |-> p])
  ELSE IF ann.type = "circle"
  THEN updateAnnotation(st, ann.id, [radius |-> LengthSq100(Sub(p, ann.center))])
  ELSE IF ann.type = "arrow"
  THEN updateAnnotation(st, ann.id, [to |-> Vec(p.x, ann.from.y, p.z)])
  ELSE st

\* A window listener: the handler instance (kind, and the generation of the
\* memoized callbacks it belongs to) with the values it closed over.
AnnListener(kind, cl) ==
  [ comp |-> "Annotations", kind |-> kind, handlers |-> cl.annHandlers,
    closure |-> [ drawingId |-> cl.drawingId, isSelecting |-> cl.isSelecting,
                  selectedAnnId |-> cl.selectedAnnId,
                  selectionDragMode |-> cl.selectionDragMode,
                  ann |-> cl.capturedDrawAnn ] ]

\* removeEventListener called with other instances than the attached ones.
Ann_removeOtherInstances(st, handlers) ==
  [st EXCEPT !.listeners =
     { l \in st.listeners : ~(l.comp = "Annotations" /\ l.handlers = handlers + 1) }]

Ann_removeListeners(st, handlers) ==
  [st EXCEPT !.listeners =
     { l \in st.listeners : ~(l.comp = "Annotations" /\ l.handlers = handlers) }]

Ann_handleGlobalMouseMove(l, st, p) ==
  LET c == l.closure IN
  IF /\ c.isSelecting /\ c.selectedAnnId # null /\ c.selectionDragMode # null
     /\ st.selectionDragRef # NoDrag
  THEN IF p = NoPoint THEN st ELSE updateSelectionAt(st, p)
  ELSE IF c.drawingId # null
  THEN IF p = NoPoint THEN st ELSE applyDrawAt(st, c.ann, p)
  ELSE st

Ann_handleGlobalMouseUp(l, st) ==
  LET s1 == endDrawNavLock([st EXCEPT !.drawingId = null,
                                      !.selectionDragMode = null,
                                      !.selectionDragRef = NoDrag])
  IN IF s1.annGlobalDragAttachedRef
     THEN [ Ann_removeListeners(s1, l.handlers)
              EXCEPT !.annGlobalDragAttachedRef = FALSE ]
     ELSE s1

Ann_attachGlobalDrag(cl, st) ==
  IF st.annGlobalDragAttachedRef THEN st
  ELSE [st EXCEPT !.listeners = st.listeners \cup
                     {AnnListener("mousemove", cl), AnnListener("mouseup", cl)},
                  !.annGlobalDragAttachedRef = TRUE]

beginSelectionDrag(cl, st, p, ann, mode) ==
  IF p = NoPoint THEN st
  ELSE
  LET snap ==
        IF ann.type = "arrow"
        THEN [ annId |-> ann.id, shapeType |-> "arrow", mode |-> mode,
               startPointer |-> p, initialFrom |-> ann.from, initialTo |-> ann.to,
               initialLength |-> LengthSq100(Sub(ann.to, ann.from)) ]
        ELSE IF ann.type = "circle"
        THEN [ annId |-> ann.id, shapeType |-> "circle", mode |-> mode,
               startPointer |-> p, initialCenter |-> ann.center,
               initialRadius |-> ann.radius ]
        ELSE [ annId |-> ann.id, shapeType |-> ann.type, mode |-> mode,
               startPointer |-> p, initialStart |-> ann.start, initialEnd |-> ann.end,
               initialRotation |-> IF "rotation" \in DOMAIN ann
                                   THEN ann.rotation ELSE Angle0 ]
  IN Ann_attachGlobalDrag(cl, [st EXCEPT !.selectionDragRef = snap])

Ann_clearSelection(cl, st) ==
  IF cl.isSelecting
  THEN LET s1 == [st EXCEPT !.isSelecting = FALSE, !.selectedAnnId = null]
       IN IF ~s1.prevNavLockRef THEN setNavLock(s1, FALSE) ELSE s1
  ELSE st

\* The erase branch's target: annotations.find(hit test)
EraseTarget(anns, p) ==
  IF \E i \in DOMAIN anns : HitTest(anns[i], p)
  THEN anns[CHOOSE i \in DOMAIN anns :
              /\ HitTest(anns[i], p)
              /\ \A j \in DOMAIN anns : HitTest(anns[j], p) => i <= j]
  ELSE NoAnn

NewAnnotation(tool, id, p) ==
  IF tool \in {"rectangle", "square"}
  THEN [ id |-> id, type |-> tool, color |-> "#f59e0b", lineWidth |-> 2,
         filled |-> FALSE, strokeStyle |-> "solid", start |-> p, end |-> p ]
  ELSE IF tool = "circle"
  THEN [ id |-> id, type |-> "circle", color |-> "#f59e0b", lineWidth |-> 2,
         filled |-> FALSE, strokeStyle |-> "solid", center |-> p, radius |-> 0 ]
  ELSE [ id |-> id, type |-> "arrow", color |-> "#f59e0b", lineWidth |-> 2,
         filled |-> FALSE, strokeStyle |-> "solid", from |-> p, to |-> p ]

\* e = [button, p]: the pointer event's button and its ground point.
onFieldPointerDown(cl, st, e) ==
  LET s1 == IF e.button = 0 \/ e.button = 2 THEN Ann_clearSelection(cl, st) ELSE st
  IN IF cl.activeTool = null \/ e.button # 0 \/ cl.activeTool = "select" THEN s1
     ELSE IF e.p = NoPoint THEN s1
     ELSE IF cl.activeTool \in ShapeTools
     THEN LET s2 == beginDrawNavLock(cl, s1)
              id == AnnIdTable[s2.clock + 1]
              s3 == addAnnotation([s2 EXCEPT !.clock = s2.clock + 1],
                                  NewAnnotation(cl.activeTool, id, e.p))
          IN Ann_attachGlobalDrag(cl, [s3 EXCEPT !.drawingId = id])
     ELSE IF cl.activeTool = "erase"
     THEN LET target == EraseTarget(cl.annotations, e.p)
          IN IF target # NoAnn THEN removeAnnotation(s1, target.id) ELSE s1
     ELSE s1

onFieldPointerMove(cl, st, p) ==
  IF cl.drawingId = null THEN st
  ELSE IF p = NoPoint THEN st
  ELSE applyDrawAt(st, FindAnn(cl.annotations, cl.drawingId), p)

onFieldPointerUp(cl, st) ==
  LET s1 == endDrawNavLock([st EXCEPT !.drawingId = null,
                                      !.selectionDragMode = null])
      s2 == IF cl.activeTool \in ShapeTools THEN setActiveTool(s1, null) ELSE s1
  IN IF s2.annGlobalDragAttachedRef
     THEN [ Ann_removeListeners(s2, cl.annHandlers)
              EXCEPT !.annGlobalDragAttachedRef = FALSE ]
     ELSE s2

onAnnotationPointerDown(cl, st, e, ann) ==
  IF e.button = 0 /\ cl.isSelecting /\ cl.selectedAnnId # null
     /\ cl.selectedAnnId # ann.id
  THEN st
  ELSE IF e.button = 2
  THEN IF ~cl.isSelecting \/ cl.selectedAnnId # ann.id
       THEN LET s1 == [st EXCEPT !.isSelecting = TRUE, !.selectedAnnId = ann.id,
                                 !.prevNavLockRef = cl.isNavLocked]
            IN IF ~cl.isNavLocked THEN setNavLock(s1, TRUE) ELSE s1
       ELSE LET s1 == [st EXCEPT !.isSelecting = FALSE, !.selectedAnnId = null]
            IN IF ~s1.prevNavLockRef THEN setNavLock(s1, FALSE) ELSE s1
  ELSE IF e.button = 0 /\ cl.isSelecting /\ cl.selectedAnnId = ann.id
  THEN LET mode == IF ann.type = "circle" THEN "move"
                   ELSE IF cl.isAlt THEN "rotate" ELSE "move"
       IN beginSelectionDrag(cl, [st EXCEPT !.selectionDragMode = mode], e.p, ann, mode)
  ELSE st

\* Handles of the selected rectangle / square (corner: resize, rotate) and
\* circle (centre: move, edge: resize).
onHandlePointerDown(cl, st, e, ann, mode) ==
  beginSelectionDrag(cl, [st EXCEPT !.selectedAnnId = ann.id,
                                    !.selectionDragMode = mode], e.p, ann, mode)

\* Handles of the selected arrow (from, to, rotate).
onArrowHandlePointerDown(cl, st, e, ann, mode) ==
  beginSelectionDrag(cl, [st EXCEPT !.selectionDragMode = mode], e.p, ann, mode)

\* The arrow's shaft (mode move) and head (mode arrow-to): they take the
\* event only for a left press on the selected arrow; otherwise it bubbles
\* to the arrow's group.
onArrowPartPointerDown(cl, st, e, ann, mode) ==
  IF e.button = 0 /\ cl.isSelecting /\ cl.selectedAnnId = ann.id
  THEN beginSelectionDrag(cl, [st EXCEPT !.selectionDragMode = mode], e.p, ann, mode)
  ELSE onAnnotationPointerDown(cl, st, e, ann)

\* A rendering that gives every shape the size of its stored corners.
renderAsStored(a) ==
  [ w |-> Abs(a.end.x - a.start.x), h |-> Abs(a.end.z - a.start.z),
    position |-> [x2 |-> a.start.x + a.end.x, z2 |-> a.start.z + a.end.z] ]

\* What renderRectOrSquare draws of a rectangle / square: the size of the
\* plane and outline, and the group's position (x2, z2: twice the centre).
renderRectOrSquare(a) ==
  LET width == Abs(a.end.x - a.start.x)
      height == Abs(a.end.z - a.start.z)
  IN [ w |-> IF a.type = "square" THEN Max(width, height) ELSE width,
       h |-> IF a.type = "square" THEN Max(width, height) ELSE height,
       position |-> [x2 |-> a.start.x + a.end.x, z2 |-> a.start.z + a.end.z] ]

Ann_onPointerMove(cl, st, p) ==
  IF ~(/\ cl.isSelecting /\ cl.selectedAnnId # null /\ cl.selectionDragMode # null
       /\ st.selectionDragRef # NoDrag)
  THEN st
  ELSE IF p = NoPoint THEN st
  ELSE updateSelectionAt(st, p)

onFieldPointerMissed(cl, st, e) ==
  IF e.button = 0 \/ e.button = 2 THEN Ann_clearSelection(cl, st) ELSE st

\* ------------------------------------------------------------ <SoccerSceneContent />
\* The listener of the 'annotations:clearSelection' window event, which
\* SoccerSceneContent's clearSelection dispatches.
onClear(cl, st) ==
  IF cl.isSelecting
  THEN LET s1 == [st EXCEPT !.isSelecting = FALSE, !.selectedAnnId = null]
       IN IF ~s1.prevNavLockRef THEN setNavLock(s1, FALSE) ELSE s1
  ELSE st

SceneListener(kind, cl) ==
  [ comp |-> "SoccerScene", kind |-> kind, handlers |-> cl.sceneHandlers,
    closure |-> [ activeDragId |-> cl.activeDragId ] ]

Scene_removeListeners(st, handlers) ==
  [st EXCEPT !.listeners =
     { l \in st.listeners : ~(l.comp = "SoccerScene" /\ l.handlers = handlers) }]

Scene_handleGlobalMouseMove(l, st, p) ==
  IF l.closure.activeDragId # null
  THEN IF p = NoPoint THEN st
       ELSE updatePlayerPosition(st, l.closure.activeDragId, p)
  ELSE st

Scene_handleGlobalMouseUp(l, st) ==
  LET s1 == IF st.didLockForPlayerDragRef
            THEN [ (IF ~st.prevNavLockBeforePlayerDragRef
                    THEN setNavLock(st, FALSE) ELSE st)
                     EXCEPT !.didLockForPlayerDragRef = FALSE ]
            ELSE st
  IN [ Scene_removeListeners(s1, l.handlers)
         EXCEPT !.sceneGlobalDragAttachedRef = FALSE ]

Scene_attachGlobalDrag(cl, st) ==
  IF st.sceneGlobalDragAttachedRef THEN st
  ELSE [st EXCEPT !.listeners = st.listeners \cup
                     {SceneListener("mousemove", cl), SceneListener("mouseup", cl)},
                  !.sceneGlobalDragAttachedRef = TRUE]

\* A player pointer-down that tests neither the tool nor the button.
onPlayerPointerDownUnguarded(cl, st, e, playerId) ==
  LET s1 == onClear(cl, st)
      s2 == [s1 EXCEPT !.activeDragId = playerId,
                       !.selectedPlayerId = playerId]
      s3 == IF ~s2.didLockForPlayerDragRef
            THEN [ (IF ~cl.isNavLocked THEN setNavLock(s2, TRUE) ELSE s2)
                     EXCEPT !.prevNavLockBeforePlayerDragRef = cl.isNavLocked,
                            !.didLockForPlayerDragRef = TRUE ]
            ELSE s2
  IN Scene_attachGlobalDrag(cl, s3)

onPlayerPointerDown(cl, st, e, playerId) ==
  LET s1 == onClear(cl, st) IN
  IF cl.activeTool # null THEN s1
  ELSE IF e.button # 0 THEN s1
  ELSE LET s2 == [s1 EXCEPT !.activeDragId = playerId,
                            !.selectedPlayerId = playerId]
           s3 == IF ~s2.didLockForPlayerDragRef
                 THEN [ (IF ~cl.isNavLocked THEN setNavLock(s2, TRUE) ELSE s2)
                          EXCEPT !.prevNavLockBeforePlayerDragRef = cl.isNavLocked,
                                 !.didLockForPlayerDragRef = TRUE ]
                 ELSE s2
       IN Scene_attachGlobalDrag(cl, s3)

Scene_onPointerUp(st) ==
  LET s1 == [st EXCEPT !.activeDragId = null] IN
  IF s1.didLockForPlayerDragRef
  THEN [ (IF ~s1.prevNavLockBeforePlayerDragRef THEN setNavLock(s1, FALSE) ELSE s1)
           EXCEPT !.didLockForPlayerDragRef = FALSE ]
  ELSE s1

Scene_onPointerMove(cl, st, p) ==
  IF cl.activeDragId # null /\ p # NoPoint
  THEN updatePlayerPosition(st, cl.activeDragId, p)
  ELSE st

\* ------------------------------------------------------------ NavLockProvider
\* The window keydown listener of the nav lock store.
\* document.activeElement: what handleKeyPress reads of it.
Element(tagName, type, isContentEditable) ==
  [tagName |-> tagName, type |-> type, isContentEditable |-> isContentEditable]

Body == Element("BODY", "", FALSE)

TextInput == Element("INPUT", "text", FALSE)

CheckboxInput == Element("INPUT", "checkbox", FALSE)

TextArea == Element("TEXTAREA", "", FALSE)

EditableDiv == Element("DIV", "", TRUE)

InInput(active) ==
  active.tagName = "INPUT" \/ active.tagName = "TEXTAREA" \/ active.isContentEditable

handleKeyPress(st, key, active) ==
  IF key = "Space" /\ ~InInput(active) THEN toggleNavLock(st) ELSE st

\* ------------------------------------------------------------ render and effects
\* A handler generation no attached listener of the component belongs to.
FreshHandlers(comp, ls) ==
  LET used == { l.handlers : l \in { m \in ls : m.comp = comp } }
  IN IF used = {} THEN 0
     ELSE 1 + CHOOSE n \in used : \A k \in used : k <= n

\* The re-render after the handlers of one DOM event (cl: the previous
\* render, st: the state the handlers left).  The memoized window handlers
\* of a component are new instances when one of their dependencies changed;
\* the effect that depends on them then runs its cleanup, which detaches
\* the previous instances if the attached flag is set.
Commit(cl, st) ==
  LET annChanged == << st.drawingId, st.isSelecting, st.selectedAnnId,
                       st.selectionDragMode >>
                    # << cl.drawingId, cl.isSelecting, cl.selectedAnnId,
                         cl.selectionDragMode >>
      sceneChanged == st.activeDragId # cl.activeDragId
      s1 == IF annChanged /\ st.annGlobalDragAttachedRef
            THEN [ Ann_removeListeners(st, cl.annHandlers)
                     EXCEPT !.annGlobalDragAttachedRef = FALSE ]
            ELSE st
      s2 == IF sceneChanged /\ s1.sceneGlobalDragAttachedRef
            THEN [ Scene_removeListeners(s1, cl.sceneHandlers)
                     EXCEPT !.sceneGlobalDragAttachedRef = FALSE ]
            ELSE s1
  IN [ s2 EXCEPT
         !.annHandlers = IF annChanged
                         THEN FreshHandlers("Annotations", s2.listeners) ELSE @,
         !.sceneHandlers = IF sceneChanged
                           THEN FreshHandlers("SoccerScene", s2.listeners) ELSE @,
         !.capturedDrawAnn = IF annChanged
                             THEN IF s2.drawingId = null THEN NoAnn
                                  ELSE FindAnn(s2.annotations, s2.drawingId)
                             ELSE @ ]

\* The window dispatches a mousemove / mouseup to the listeners attached
\* when the dispatch starts.
RECURSIVE RunListeners(_, _, _, _)
RunListeners(ls, kind, st, p) ==
  IF ls = {} THEN st
  ELSE LET l == CHOOSE m \in ls : TRUE
           s1 == IF l.kind # kind THEN st
                 ELSE IF l.comp = "Annotations"
                 THEN IF kind = "mousemove"
                      THEN Ann_handleGlobalMouseMove(l, st, p)
                      ELSE Ann_handleGlobalMouseUp(l, st)
                 ELSE IF kind = "mousemove"
                      THEN Scene_handleGlobalMouseMove(l, st, p)
                      ELSE Scene_handleGlobalMouseUp(l, st)
       IN RunListeners(ls \ {l}, kind, s1, p)

WindowEvent(cl, kind, p) == Commit(cl, RunListeners(cl.listeners, kind, cl, p))

\* Every stored annotation coordinate is on the model's grid.
GeometryOk(c) ==
  \A i \in DOMAIN c.annotations :
    LET a == c.annotations[i] IN
    IF a.type = "circle" THEN InWorld(a.center)
    ELSE IF a.type = "arrow" THEN InWorld(a.from) /\ InWorld(a.to)
    ELSE InWorld(a.start) /\ InWorld(a.end)

\* Every stored annotation coordinate is one of the ground points S.
StoredIn(c, S) ==
  \A i \in DOMAIN c.annotations :
    LET a == c.annotations[i] IN
    IF a.type = "circle" THEN a.center \in S
    ELSE IF a.type = "arrow" THEN a.from \in S /\ a.to \in S
    ELSE a.start \in S /\ a.end \in S

NoPress == [none |-> TRUE]

\* ------------------------------------------------------------ observers
NoSel == [none |-> TRUE]

NoKey == [none |-> TRUE]

\* A gesture id is set, or an annotation is selected.
Active(c) ==
  \/ c.activeDragId # null
  \/ c.drawingId # null
  \/ c.selectionDragMode # null
  \/ c.isSelecting
  \/ c.selectedAnnId # null

AtRest(c) == c.pressed = NoPress /\ ~Active(c)

\* What the observers that I switches on record of one event: pre and post
\* are the state before and after it, toggle says that it was a Space key
\* press that toggled the lock, rightClicks that it belongs to a sequence of
\* right-clicks on annotations and clicks on the field.
ObserveGesture(I, pre, post, toggle, rightClicks) ==
  /\ manualToggle' = IF "toggle" \notin I.observers \/ AtRest(post) THEN FALSE
                     ELSE IF toggle THEN TRUE ELSE manualToggle
  /\ userLock' = IF "user" \notin I.observers THEN FALSE
                 ELSE IF toggle
                 THEN post.isNavLocked /\ pre.pressed = NoPress
                      /\ pre.selectedAnnId = null
                 ELSE userLock
  /\ selLock' = IF "selection" \notin I.observers THEN NoSel
                ELSE IF post.selectedAnnId = null \/ ~rightClicks THEN NoSel
                ELSE IF AtRest(pre) THEN [lock |-> pre.isNavLocked]
                ELSE selLock
  /\ presses' = IF "presses" \notin I.observers THEN 0
                ELSE IF pre.pressed = NoPress /\ post.pressed # NoPress
                THEN presses + 1 ELSE presses

Observe(I, pre, post, toggle, rightClicks) ==
  /\ ObserveGesture(I, pre, post, toggle, rightClicks)
  /\ keyed' = NoKey

ObserveKey(I, pre, key, active) ==
  keyed' = IF "key" \notin I.observers THEN NoKey
           ELSE [ key |-> key, active |-> active, before |-> pre,
                  first |-> IF keyed # NoKey /\ keyed.key = "Space" /\ key = "Space"
                            THEN [ lock |-> keyed.before.isNavLocked,
                                   active |-> keyed.active ]
                            ELSE NoSel ]

\* ------------------------------------------------------------ events
InitWith(initialPlayers) ==
  /\ isNavLocked = FALSE
  /\ annotations = << >>
  /\ activeTool = null
  /\ players = initialPlayers
  /\ selectedPlayerId = null
  /\ teamAOptions = defaultTeamOptions("#3b82f6")
  /\ teamBOptions = defaultTeamOptions("#ef4444")
  /\ drawingId = null
  /\ selectedAnnId = null
  /\ isSelecting = FALSE
  /\ isAlt = FALSE
  /\ selectionDragMode = null
  /\ prevNavLockRef = FALSE
  /\ prevNavLockBeforeDrawRef = FALSE
  /\ didLockForDrawRef = FALSE
  /\ annGlobalDragAttachedRef = FALSE
  /\ selectionDragRef = NoDrag
  /\ activeDragId = null
  /\ prevNavLockBeforePlayerDragRef = FALSE
  /\ didLockForPlayerDragRef = FALSE
  /\ sceneGlobalDragAttachedRef = FALSE
  /\ annHandlers = 0
  /\ sceneHandlers = 0
  /\ capturedDrawAnn = NoAnn
  /\ listeners = {}
  /\ pressed = NoPress
  /\ clock = 0
  /\ manualToggle = FALSE
  /\ userLock = FALSE
  /\ selLock = NoSel
  /\ presses = 0
  /\ keyed = NoKey

Init == InitWith(INITIAL_PLAYERS)

\* The result of a pointer-down: the press is recorded (the button, whether
\* the ray hit the field group, the gesture it began and, for the observers
\* of presses, whether it came from rest, the lock before it, its nearest
\* hit and its ground point, the annotations before it, the pointer's
\* ground point now and the number of pointer moves since), the clock stays
\* in its bound, the geometry on the grid.
Press(I, c, e, hitField, target, began, rightClicks) ==
  LET seen == "press" \in I.observers
      aimed == "target" \in I.observers
      tracked == "pointer" \in I.observers
      post == [c EXCEPT !.pressed =
                 [ button |-> e.button, hitField |-> hitField, began |-> began,
                   target |-> IF aimed \/ tracked THEN target ELSE "-",
                   p |-> IF aimed \/ tracked THEN e.p ELSE NoPoint,
                   fromRest |-> seen /\ AtRest(Cur),
                   L |-> seen /\ isNavLocked,
                   before |-> IF tracked THEN annotations ELSE << >>,
                   at |-> IF tracked THEN e.p ELSE NoPoint,
                   moves |-> 0 ]]
  IN /\ c.clock <= I.maxAnnotations
     /\ "presses" \in I.observers => presses < MaxPresses
     /\ GeometryOk(c)
     /\ StoredIn(c, I.coords)
     /\ Become(post)
     /\ Observe(I, Cur, post, FALSE, rightClicks)

PlayerPointerDown(I, e, playerId, hitField) ==
  /\ pressed = NoPress
  /\ Press(I, Commit(Cur, onPlayerPointerDown(Cur, Cur, e, playerId)),
           e, hitField, "player",
           IF activeTool = null /\ e.button = 0 THEN "drag" ELSE "none", FALSE)

FieldPointerDown(I, e) ==
  /\ pressed = NoPress
  /\ LET c == Commit(Cur, onFieldPointerDown(Cur, Cur, e))
         began == IF c.clock # clock THEN "draw" ELSE "none"
     IN Press(I, c, e, TRUE, "field", began, began = "none")

\* A pointer-down whose nearest hit is annotation number i. The body of a
\* rectangle, square or circle is a mesh without a handler of its own, so
\* the press reaches the group's handler; every mesh of an arrow's group has
\* its own handler, so a press on an arrow's body reaches the handler of the
\* shaft, or that of the head, before the group's.
AnnotationPointerDown(I, e, i, part, hitField) ==
  /\ pressed = NoPress
  /\ i \in DOMAIN annotations
  /\ part # "body" => annotations[i].type = "arrow"
  /\ LET a == annotations[i]
         st == IF a.type # "arrow" THEN onAnnotationPointerDown(Cur, Cur, e, a)
               ELSE IF part = "head" THEN onArrowPartPointerDown(Cur, Cur, e, a, "arrow-to")
               ELSE onArrowPartPointerDown(Cur, Cur, e, a, "move")
         began == IF e.button = 0 /\ isSelecting /\ selectedAnnId = a.id
                  THEN "transform" ELSE "none"
     IN Press(I, Commit(Cur, st), e, hitField, "annotation", began, e.button = 2)

HandleModes(type) ==
  IF type = "arrow" THEN {"arrow-from", "arrow-to", "rotate"}
  ELSE IF type = "circle" THEN {"move", "resize"}
  ELSE {"resize", "rotate"}

\* A pointer-down on a handle of the selected annotation (the handles are
\* rendered for the annotation whose id is selectedAnnId).
HandlePointerDown(I, e, i, mode, hitField) ==
  /\ pressed = NoPress
  /\ i \in DOMAIN annotations
  /\ annotations[i].id = selectedAnnId
  /\ mode \in HandleModes(annotations[i].type)
  /\ LET a == annotations[i]
         st == IF a.type = "arrow" THEN onArrowHandlePointerDown(Cur, Cur, e, a, mode)
               ELSE onHandlePointerDown(Cur, Cur, e, a, mode)
     IN Press(I, Commit(Cur, st), e, hitField, "handle", "transform", FALSE)

\* A pointer-down that hits no scene object.
MissedPointerDown(I, button) ==
  /\ pressed = NoPress
  /\ Press(I, Cur, [button |-> button, p |-> NoPoint], FALSE, "none", "none", FALSE)

\* What the ray of a pointermove / pointerup hits: the field group (and with
\* it the groups around it), only an annotation, only a player, or nothing.
Levels == {"field", "annotations", "scene", "none"}

PointerHandlersMove(cl, level, p) ==
  LET s1 == IF level = "field" THEN onFieldPointerMove(cl, cl, p) ELSE cl
      s2 == IF level \in {"field", "annotations"} THEN Ann_onPointerMove(cl, s1, p) ELSE s1
  IN IF level # "none" THEN Scene_onPointerMove(cl, s2, p) ELSE s2

PointerMove(I, level, p) ==
  LET c1 == Commit(Cur, PointerHandlersMove(Cur, level, p))
      c2 == WindowEvent(c1, "mousemove", p)
      post == IF "pointer" \in I.observers /\ pressed # NoPress
              THEN [c2 EXCEPT !.pressed.at = p,
                              !.pressed.moves = Min(@ + 1, MaxMoves)]
              ELSE c2
  IN /\ GeometryOk(c2)
     /\ StoredIn(c2, I.coords)
     /\ Become(post)
     /\ Observe(I, Cur, post, FALSE, TRUE)

PointerHandlersUp(cl, level) ==
  LET s1 == IF level = "field" THEN onFieldPointerUp(cl, cl) ELSE cl
  IN IF level # "none" THEN Scene_onPointerUp(s1) ELSE s1

\* The release of the held button: the scene's pointerup handlers, the
\* window's mouseup listeners, and, when press and release make a click whose
\* pointer-down ray did not hit the field group, the field's onPointerMissed.
PointerUp(I, level, click) ==
  /\ pressed # NoPress
  /\ click => ((level = "field") <=> pressed.hitField)
  /\ LET c1 == Commit(Cur, PointerHandlersUp(Cur, level))
         c2 == WindowEvent(c1, "mouseup", NoPoint)
         c3 == IF click /\ ~pressed.hitField
               THEN Commit(c2, onFieldPointerMissed(c2, c2, [button |-> pressed.button]))
               ELSE c2
         post == [c3 EXCEPT !.pressed = NoPress]
     IN /\ Become(post)
        /\ Observe(I, Cur, post, FALSE, TRUE)

KeyDown(I, key, active) ==
  LET post == Commit(Cur, onKeyDown(Cur, handleKeyPress(Cur, key, active), key))
  IN /\ Become(post)
     /\ ObserveGesture(I, Cur, post, key = "Space" /\ ~InInput(active), FALSE)
     /\ ObserveKey(I, Cur, key, active)

KeyUp(I, key) ==
  LET post == Commit(Cur, onKeyUp(Cur, key))
  IN /\ Become(post)
     /\ Observe(I, Cur, post, FALSE, FALSE)

\* A tool button of the Draw panel.
ClickToolButton(I, tool) ==
  /\ pressed = NoPress
  /\ LET post == Commit(Cur, setActiveTool(Cur, IF activeTool = tool THEN null ELSE tool))
     IN /\ Become(post)
        /\ Observe(I, Cur, post, FALSE, FALSE)

\* The Clear button of the Draw panel.
ClickClear(I) ==
  /\ pressed = NoPress
  /\ LET post == Commit(Cur, clearAnnotations(Cur))
     IN /\ Become(post)
        /\ Observe(I, Cur, post, FALSE, FALSE)

\* The pointer events with a button of bs at a ground point of ps.
PointerEvents(bs, ps) == { [button |-> b, p |-> p] : b \in bs, p \in ps }

\* The events of one run, with their inputs drawn from the sets of I.
Run(I) ==
  \/ \E e \in PointerEvents(I.buttons, I.points), id \in I.players, h \in I.hits :
       PlayerPointerDown(I, e, id, h)
  \/ \E e \in PointerEvents(I.buttons, I.points) : FieldPointerDown(I, e)
  \/ \E e \in PointerEvents(I.buttons, I.points), i \in 1..I.maxAnnotations,
        part \in I.parts, h \in I.hits :
       AnnotationPointerDown(I, e, i, part, h)
  \/ \E e \in PointerEvents(I.buttons, I.points), i \in 1..I.maxAnnotations,
        mode \in I.modes, h \in I.hits :
       HandlePointerDown(I, e, i, mode, h)
  \/ \E b \in I.buttons : MissedPointerDown(I, b)
  \/ \E level \in I.levels, p \in I.points : PointerMove(I, level, p)
  \/ \E level \in I.levels, click \in BOOLEAN : PointerUp(I, level, click)
  \/ \E key \in I.keys, active \in I.focus : KeyDown(I, key, active)
  \/ \E key \in I.keys : KeyUp(I, key)
  \/ \E tool \in I.tools : ClickToolButton(I, tool)
  \/ ClickClear(I)

\* Gestures of every kind on one annotation: one shape tool, one player,
\* the Space and Alt keys, releases at every level.
GestureInputs ==
  [ buttons |-> Buttons, players |-> {"A6"}, hits |-> {TRUE},
    points |-> Points, parts |-> {"body"}, modes |-> {"resize"},
    levels |-> Levels, keys |-> {"Space", "Alt"}, focus |-> {Body},
    tools |-> {"rectangle"}, maxAnnotations |-> MaxGestureAnnotations,
    coords |-> Points, observers |-> {} ]

Next == Run(GestureInputs)

Spec == Init /\ [][Next]_vars

\* The same gestures without the Alt key, with the observers of the lock.
LockInputs ==
  [ GestureInputs EXCEPT !.keys = {"Space"},
                         !.observers = {"toggle", "press", "user"} ]

NextLock == Run(LockInputs)

SpecLock == Init /\ [][NextLock]_vars

\* Selections among two annotations, every press released over the field.
SelectInputs ==
  [ GestureInputs EXCEPT !.keys = {"Space"}, !.levels = {"field"},
                         !.maxAnnotations = MaxAnnotations,
                         !.observers = {"selection", "target"} ]

NextSelect == Run(SelectInputs)

SpecSelect == Init /\ [][NextSelect]_vars

\* The erase tool on two annotations, every press released over the field.
EraseInputs ==
  [ GestureInputs EXCEPT !.keys = {"Delete"}, !.levels = {"field"},
                         !.tools = {"rectangle", "erase"},
                         !.maxAnnotations = MaxAnnotations,
                         !.observers = {"target"} ]

NextErase == Run(EraseInputs)

SpecErase == Init /\ [][NextErase]_vars

\* The pointer's ground points in the runs that draw and move shapes, and
\* the points the shapes' coordinates are stored at in these runs.
MovePoints == {Vec(0, 0, 0), Vec(1, 0, 2)}

MoveCoords == {Vec(x, 0, z) : x \in 0..2, z \in 0..4}

\* Shapes of every type drawn, selected, rotated with Alt and moved, the
\* pointer staying over the field.
MoveInputs ==
  [ GestureInputs EXCEPT !.points = MovePoints, !.coords = MoveCoords,
                         !.modes = {"move"},
                         !.levels = {"field"}, !.keys = {"Alt"},
                         !.tools = ShapeTools,
                         !.observers = {"pointer", "presses"} ]

NextMove == Run(MoveInputs)

SpecMove == Init /\ [][NextMove]_vars

\* The pointer's ground points in the runs that draw a rectangle and move
\* it: the corners (0,0,0) and (10,0,5), and (2,0,3).
DrawPoints == {Vec(0, 0, 0), Vec(10, 0, 5), Vec(2, 0, 3)}

DrawCoords == {Vec(x, 0, z) : x \in 0..MaxX, z \in 0..MaxZ}

\* A rectangle drawn, selected and moved, the pointer staying over the field.
DrawInputs ==
  [ GestureInputs EXCEPT !.points = DrawPoints, !.coords = DrawCoords,
                         !.levels = {"field"}, !.keys = {"Shift"},
                         !.observers = {"pointer", "presses"} ]

NextDraw == Run(DrawInputs)

SpecDraw == Init /\ [][NextDraw]_vars

\* Presses of the delete keys, on up to MaxKeyAnnotations annotations, with
\* releases over the field.
DeleteInputs ==
  [ GestureInputs EXCEPT !.keys = {"Delete", "Backspace"},
                         !.levels = {"field"},
                         !.maxAnnotations = MaxKeyAnnotations,
                         !.observers = {"key"} ]

NextDelete == Run(DeleteInputs)

SpecDelete == Init /\ [][NextDelete]_vars

\* Presses of the delete keys with the focus on the page's body or on a
\* text field of the edit panel, with releases over the field.
TypingInputs ==
  [ GestureInputs EXCEPT !.keys = {"Delete", "Backspace"},
                         !.levels = {"field"},
                         !.focus = {Body, TextInput},
                         !.observers = {"key"} ]

NextTyping == Run(TypingInputs)

SpecTyping == Init /\ [][NextTyping]_vars

\* Presses of the Space key with the focus on the page's body, on a text
\* field or a checkbox of the control panel, on a textarea or on a
\* content-editable element, around gestures released over the field.
SpaceInputs ==
  [ GestureInputs EXCEPT !.keys = {"Space"}, !.levels = {"field"},
                         !.focus = {Body, TextInput, CheckboxInput, TextArea, EditableDiv},
                         !.observers = {"key"} ]

NextSpace == Run(SpaceInputs)

SpecSpace == Init /\ [][NextSpace]_vars

\* ------------------------------------------------------------ team overlays
TeamPlayersOf(ps, team) == SelectSeq(ps, LAMBDA p : p.teamId = team)

ActivePlayers(ps, playerIds) == SelectSeq(ps, LAMBDA p : Includes(playerIds, p.id))

\* The pairs [points[i], points[j]], j > i, in the order of the two loops.
RECURSIVE LinesFrom(_, _, _)
LinesFrom(points, i, j) ==
  IF i > Len(points) THEN << >>
  ELSE IF j > Len(points) THEN LinesFrom(points, i + 1, i + 2)
  ELSE << << points[i], points[j] >> >> \o LinesFrom(points, i, j + 1)

\* A net that joins each selected player to the next one only.
PassingNetChain(ps, playerIds) ==
  LET active == ActivePlayers(ps, playerIds)
  IN [i \in 1..(Len(active) - 1) |-> << active[i].position, active[i + 1].position >>]

\* <PassingNet />: the line segments it renders; none when it returns null.
PassingNet(ps, playerIds) ==
  LET active == ActivePlayers(ps, playerIds)
      points == [i \in DOMAIN active |-> active[i].position]
  IN IF Len(active) < 2 THEN << >> ELSE LinesFrom(points, 1, 2)

\* smoothingFactor = 0.15.  The vertices of the hull are held in units of
\* 1 / smoothingFactor.den, so that they stay integers.
smoothingFactor == [num |-> 3, den |-> 20]

InUnits(v, k) == Vec(k * v.x, k * v.y, k * v.z)

RECURSIVE SumPoints(_)
SumPoints(points) ==
  IF points = << >> THEN Vec(0, 0, 0)
  ELSE Add(SumPoints(Tail(points)), Head(points))

\* angleA - angleB < 0 for two results of Math.atan2, which lie in (-pi, pi].
AngleLess(a, b) ==
  LET rank(d) == IF d.dz < 0 THEN 0
                 ELSE IF d.dz = 0 /\ d.dx > 0 THEN 1
                 ELSE IF d.dz > 0 THEN 2 ELSE 3
  IN \/ rank(a) < rank(b)
     \/ rank(a) = rank(b) /\ a.dx * b.dz - a.dz * b.dx > 0

\* [...points].sort by the angle around the centroid (a stable sort); the
\* direction of a - sum / n is the direction of n * a - sum.
SortByAngle(points) ==
  LET n == Len(points)
      sum == SumPoints(points)
      angle(i) == Atan2(n * points[i].z - sum.z, n * points[i].x - sum.x)
      order(i) == 1 + Cardinality({ j \in 1..n :
                                     \/ AngleLess(angle(j), angle(i))
                                     \/ angle(j) = angle(i) /\ j < i })
  IN [k \in 1..n |-> points[CHOOSE i \in 1..n : order(i) = k]]

\* The branch of getConvexHull for four points or more.
SmoothedHull(ps) ==
  LET points == [i \in DOMAIN ps |-> ps[i].position]
      n == Len(points)
      sortedPoints == SortByAngle(points)
  IN [k \in 1..(2 * n) |->
        IF k % 2 = 1
        THEN InUnits(sortedPoints[(k + 1) \div 2], smoothingFactor.den)
        ELSE LET current == sortedPoints[k \div 2]
                 next == sortedPoints[((k \div 2) % n) + 1]
             IN InUnits(Add(current, next), smoothingFactor.num)]

\* A hull that takes the smoothing branch for three points or fewer as well.
AlwaysSmoothedHull(ps) == SmoothedHull(ps)

getConvexHull(ps) ==
  LET points == [i \in DOMAIN ps |-> ps[i].position]
  IN IF Len(points) <= 3
     THEN [i \in DOMAIN points |-> InUnits(points[i], smoothingFactor.den)]
     ELSE SmoothedHull(ps)

\* <CoveredArea />: the vertices of the shape it renders; none when it
\* returns null.
CoveredArea(ps, playerIds) ==
  LET hullPoints == getConvexHull(ActivePlayers(ps, playerIds))
  IN IF Len(hullPoints) < 3 THEN << >>
     ELSE [i \in DOMAIN hullPoints |-> [x |-> hullPoints[i].x, z |-> hullPoints[i].z]]

\* What <SoccerSceneContent /> renders of a team's overlays in state c:
\* nothing while the overlay's show flag is off.
ScenePassingNet(c, team) ==
  IF c[OptionsOf(team)].showPassingNet
  THEN PassingNet(TeamPlayersOf(c.players, team), c[OptionsOf(team)].passingNetPlayerIds)
  ELSE << >>

SceneCoveredArea(c, team) ==
  IF c[OptionsOf(team)].showCoveredArea
  THEN CoveredArea(TeamPlayersOf(c.players, team), c[OptionsOf(team)].coveredAreaPlayerIds)
  ELSE << >>

\* The checkboxes of <TeamOptionsPanel />: a show flag, and a player of one
\* of the two lists, which are rendered while their show flag is on.
ChangeTeamCheckbox(I, team, name) ==
  /\ pressed = NoPress
  /\ LET post == Commit(Cur, setTeamOptionChange(Cur, team,
                                name :> ~Cur[OptionsOf(team)][name]))
     IN /\ Become(post)
        /\ Observe(I, Cur, post, FALSE, FALSE)

\* A panel that lists the players of both teams.
PanelAllPlayers(ps, team) == ps

\* The players <ControlPanel /> hands to a team's panel.
PanelPlayers(ps, team) == SelectSeq(ps, LAMBDA p : p.teamId = team)

TogglePlayer(I, team, feature, playerId) ==
  /\ pressed = NoPress
  /\ Cur[OptionsOf(team)][IF feature = "passingNet" THEN "showPassingNet"
                          ELSE "showCoveredArea"]
  /\ \E i \in DOMAIN PanelPlayers(players, team) :
       PanelPlayers(players, team)[i].id = playerId
  /\ LET post == Commit(Cur, togglePlayerSelection(Cur, team, feature, playerId))
     IN /\ Become(post)
        /\ Observe(I, Cur, post, FALSE, FALSE)

\* Six players of the two teams; A6 and A11 stand where the formation puts
\* them, the others where a drag has put them.
TeamPlayers(a2, a5) ==
  << [id |-> "A2", teamId |-> "A", name |-> "Player 2", number |-> 2,
      role |-> "Right Back", position |-> a2],
     [id |-> "A5", teamId |-> "A", name |-> "Player 5", number |-> 3,
      role |-> "Left Back", position |-> a5],
     [id |-> "A6", teamId |-> "A", name |-> "Player 6", number |-> 6,
      role |-> "Defensive Midfielder", position |-> Vec(-15, 0, 0)],
     [id |-> "A11", teamId |-> "A", name |-> "Player 11", number |-> 9,
      role |-> "Striker", position |-> Vec(10, 0, 0)],
     [id |-> "B9", teamId |-> "B", name |-> "Player 9", number |-> 9,
      role |-> "Center Forward", position |-> Vec(30, 0, 7)],
     [id |-> "B10", teamId |-> "B", name |-> "Player 10", number |-> 11,
      role |-> "Striker", position |-> Vec(30, 0, -7)] >>

TeamRosters ==
  { TeamPlayers(Vec(-32, 0, 17), Vec(-32, 0, -17)),
    TeamPlayers(Vec(-5, 0, 3), Vec(-32, 0, -17)),
    TeamPlayers(Vec(-5, 0, 0), Vec(20, 0, 0)) }

TeamIds == {"A2", "A5", "A6", "A11", "B9", "B10"}

TeamInputs ==
  [ checkboxes |-> { << "A", "showPassingNet" >>, << "A", "showCoveredArea" >>,
                     << "B", "showPassingNet" >> },
    toggles |-> { << "A", "passingNet", "A2" >>, << "A", "passingNet", "A6" >>,
                  << "A", "passingNet", "A11" >>,
                  << "A", "coveredArea", "A2" >>, << "A", "coveredArea", "A5" >>,
                  << "A", "coveredArea", "A6" >>, << "A", "coveredArea", "A11" >>,
                  << "B", "passingNet", "B9" >>, << "B", "passingNet", "B10" >>,
                  << "A", "passingNet", "B9" >>, << "B", "passingNet", "A6" >> },
    observers |-> {} ]

InitTeam == \E ps \in TeamRosters : InitWith(ps)

NextTeam ==
  \/ \E c \in TeamInputs.checkboxes : ChangeTeamCheckbox(TeamInputs, c[1], c[2])
  \/ \E t \in TeamInputs.toggles : TogglePlayer(TeamInputs, t[1], t[2], t[3])

SpecTeam == InitTeam /\ [][NextTeam]_vars

\* Presses on two players with either button, with no tool or with a shape
\* tool, the eraser or the select tool, every press released over the field.
GrabInputs ==
  [ GestureInputs EXCEPT !.players = {"A6", "A11"}, !.levels = {"field"},
                         !.keys = {"Alt"},
                         !.tools = {"rectangle", "erase", "select"},
                         !.observers = {"target"} ]

NextGrab == Run(GrabInputs)

SpecGrab == Init /\ [][NextGrab]_vars

\* Pointer events whose ray meets the ground plane at the origin or not at
\* all, every press released over the field.
NoPointInputs ==
  [ GestureInputs EXCEPT !.points = Points \cup {NoPoint}, !.levels = {"field"},
                         !.keys = {"Alt"}, !.observers = {"target"} ]

NextNoPoint == Run(NoPointInputs)

SpecNoPoint == Init /\ [][NextNoPoint]_vars

\* Presses that follow a release outside the scene, on two players and one
\* annotation.
ReenterInputs ==
  [ GestureInputs EXCEPT !.players = {"A6", "A11"}, !.levels = {"field", "none"},
                         !.keys = {"Alt"}, !.observers = {"target"} ]

NextReenter == Run(ReenterInputs)

SpecReenter == Init /\ [][NextReenter]_vars

\* ------------------------------------------------------------ edit panel
\* parseInt(value, 10) || 0 for the values typed into the number field: a
\* string of digits gives its number, the empty string gives NaN and so 0.
ParseIntOrZero(value) ==
  CASE value = "7" -> 7
    [] value = "10" -> 10
    [] OTHER -> 0

\* handlePlayerChange: a change event of the field `name' of the edit panel.
handlePlayerChange(cl, st, name, value) ==
  IF \A i \in DOMAIN cl.players : cl.players[i].id # cl.selectedPlayerId
  THEN st
  ELSE updatePlayer(st, cl.selectedPlayerId,
                    name :> (IF name = "number" THEN ParseIntOrZero(value) ELSE value))

EditPlayer(I, name, value) ==
  /\ pressed = NoPress
  /\ LET post == Commit(Cur, handlePlayerChange(Cur, Cur, name, value))
     IN /\ Become(post)
        /\ Observe(I, Cur, post, FALSE, FALSE)

\* Edits and drags of one player, team options and one annotation, with
\* releases over the field.
RosterInputs ==
  [ GestureInputs EXCEPT !.levels = {"field"}, !.keys = {"Alt"} ]

RosterEdits == { << "name", "Ana" >>, << "number", "" >> }

RosterCheckboxes == { << "A", "showPassingNet" >> }

RosterToggles == { << "A", "passingNet", "A6" >> }

NextRoster ==
  \/ Run(RosterInputs)
  \/ \E e \in RosterEdits : EditPlayer(RosterInputs, e[1], e[2])
  \/ \E c \in RosterCheckboxes : ChangeTeamCheckbox(RosterInputs, c[1], c[2])
  \/ \E t \in RosterToggles : TogglePlayer(RosterInputs, t[1], t[2], t[3])

SpecRoster == Init /\ [][NextRoster]_vars

\* ------------------------------------------------------------ claims
\* A release of the button whose press began a gesture.
GestureEnds == pressed # NoPress /\ pressed.began # "none" /\ pressed' = NoPress

DrawEnds == pressed # NoPress /\ pressed.began = "draw" /\ pressed' = NoPress

\* C6: in every reachable state at most one of activeDragId (player drag),
\* drawingId (shape draw) and selectionDragMode (shape transform) is non-null.
C6_AtMostOneGesture ==
  /\ ~(activeDragId # null /\ drawingId # null)
  /\ ~(activeDragId # null /\ selectionDragMode # null)
  /\ ~(drawingId # null /\ selectionDragMode # null)

\* C7: the release of the mouse button at the end of a player drag, a draw
\* or a transform leaves activeDragId, drawingId and selectionDragMode null,
\* wherever the pointer is released.
C7_ReleaseReturnsToIdle ==
  [][GestureEnds => /\ activeDragId' = null
                    /\ drawingId' = null
                    /\ selectionDragMode' = null]_vars

\* C8: the release of the mouse button at the end of a draw leaves
\* activeTool null, wherever the pointer is released.
C8_DrawDeactivatesTool == [][DrawEnds => activeTool' = null]_vars

\* C9: when no button is held no window listener of a gesture is attached;
\* the attached listeners are the handler instances of the current render of
\* their component, the ones a removal targets, and each component's
\* attached flag says whether it has listeners attached.
C9_ListenersRemoved ==
  /\ pressed = NoPress => listeners = {}
  /\ \A l \in listeners :
       l.handlers = IF l.comp = "Annotations" THEN annHandlers ELSE sceneHandlers
  /\ annGlobalDragAttachedRef <=> \E l \in listeners : l.comp = "Annotations"
  /\ sceneGlobalDragAttachedRef <=> \E l \in listeners : l.comp = "SoccerScene"

\* A player drag whose listeners were still attached at the release has
\* ended through the window's mouseup listener, which removed them.
C9_Witness ==
  /\ pressed = NoPress
  /\ activeDragId # null
  /\ ~didLockForPlayerDragRef
  /\ listeners = {}

\* The button of the press that began a player drag or a draw is held.
GestureHeld == pressed # NoPress /\ pressed.began \in {"drag", "draw"}

\* C1: while a player drag or a draw is in progress the nav lock is true,
\* unless the user toggled it since the board was last at rest (the claim
\* asks the same of every state with an annotation selected).
C1_LockHeldDuringGesture == (GestureHeld /\ ~manualToggle) => isNavLocked

\* C2: a draw begun at rest (nothing selected, no gesture active) with the
\* lock at L, with no manual toggle before the release, leaves the lock at L.
C2_DrawRestoresLock ==
  [][(DrawEnds /\ pressed.fromRest /\ ~manualToggle) => isNavLocked' = pressed.L]_vars

\* C3: a draw begun at rest with the lock at L, during which the user
\* toggled the lock with the Space key, leaves the lock at L.
C3_DrawRestoresLockAfterToggle ==
  [][(DrawEnds /\ pressed.fromRest /\ manualToggle) => isNavLocked' = pressed.L]_vars

\* C4: a press on an annotation or on the field that ends a selection made
\* from rest by right-clicks on annotations (select, re-target) leaves the
\* lock at its value before the first of them, if it begins no gesture.
C4_DeselectRestoresLock ==
  [][(/\ selLock # NoSel
      /\ pressed = NoPress /\ pressed' # NoPress
      /\ pressed'.target \in {"annotation", "field"}
      /\ pressed'.began = "none"
      /\ selectedAnnId' = null) => isNavLocked' = selLock.lock]_vars

\* C5: a lock the user set to true between gestures, with nothing selected,
\* is true until the user's next toggle.
C5_UserLockStaysTrue == userLock => isNavLocked

\* The index of the last annotation of the list that the erase branch's hit
\* test matches at p (0: none).
LastHit(anns, p) ==
  IF \E i \in DOMAIN anns : HitTest(anns[i], p)
  THEN CHOOSE i \in DOMAIN anns :
         /\ HitTest(anns[i], p)
         /\ \A j \in DOMAIN anns : HitTest(anns[j], p) => j <= i
  ELSE 0

\* C10: with the erase tool active, a left pointer-down on the field at a
\* point that matches several annotations removes the last of them in the
\* list and leaves the others.
C10_EraseRemovesTopmost ==
  [][(/\ pressed = NoPress /\ pressed' # NoPress
      /\ pressed'.target = "field" /\ pressed'.button = 0
      /\ activeTool = "erase"
      /\ pressed'.p # NoPoint
      /\ Cardinality({i \in DOMAIN annotations : HitTest(annotations[i], pressed'.p)}) >= 2)
     => annotations' = [k \in 1..(Len(annotations) - 1) |->
                          IF k < LastHit(annotations, pressed'.p)
                          THEN annotations[k] ELSE annotations[k + 1]]]_vars

\* A move transform is in progress.
MoveHeld ==
  /\ pressed # NoPress
  /\ pressed.began = "transform"
  /\ selectionDragMode = "move"

\* Point v shifted by d.
Plus(v, d) == [x |-> v.x + d.x, y |-> v.y + d.y, z |-> v.z + d.z]

\* Annotation a with every stored coordinate field shifted by d.
Shifted(a, d) ==
  IF a.type = "arrow"
  THEN [a EXCEPT !.from = Plus(@, d), !.to = Plus(@, d)]
  ELSE IF a.type = "circle"
  THEN [a EXCEPT !.center = Plus(@, d)]
  ELSE [a EXCEPT !.start = Plus(@, d), !.end = Plus(@, d)]

\* C11: during a move transform that started with the pointer at s
\* (pressed.p) and whose pointer is now at p (pressed.at), after any number
\* of pointer moves, the transformed annotation is the annotation it was at
\* the start of the gesture with its coordinate fields (arrow: from, to;
\* circle: center; rectangle / square: start, end) shifted by p - s; every
\* other field (radius, rotation, id, type, style) is as it was.
C11_MoveShiftsByDelta ==
  MoveHeld =>
    FindAnn(annotations, selectedAnnId)
      = Shifted(FindAnn(pressed.before, selectedAnnId),
                [x |-> pressed.at.x - pressed.p.x, y |-> pressed.at.y - pressed.p.y,
                 z |-> pressed.at.z - pressed.p.z])

\* A rotated shape in a move transform, after several pointer moves, away
\* from where the gesture started.
C11_Witness ==
  /\ MoveHeld
  /\ pressed.moves = MaxMoves
  /\ pressed.at # pressed.p
  /\ "rotation" \in DOMAIN FindAnn(annotations, selectedAnnId)
  /\ FindAnn(annotations, selectedAnnId) # FindAnn(pressed.before, selectedAnnId)

\* C12: a draw with the rectangle tool that started with pointer-down at P0
\* (pressed.p), the pointer now being at P1 (pressed.at), has added exactly
\* one annotation to the list, of type rectangle with start = P0 and
\* end = P1; a move transform of a rectangle by d stores start + d and
\* end + d of the corners it had before.
C12_DrawRectangleThenMove ==
  /\ (pressed # NoPress /\ pressed.began = "draw") =>
        /\ Len(annotations) = Len(pressed.before) + 1
        /\ \A i \in DOMAIN pressed.before : annotations[i] = pressed.before[i]
        /\ LET a == annotations[Len(annotations)]
           IN /\ a.type = "rectangle"
              /\ a.start = pressed.p
              /\ a.end = pressed.at
  /\ (MoveHeld /\ FindAnn(annotations, selectedAnnId).type = "rectangle") =>
        LET a == FindAnn(annotations, selectedAnnId)
            b == FindAnn(pressed.before, selectedAnnId)
        IN /\ a.start.x = b.start.x + pressed.at.x - pressed.p.x
           /\ a.start.z = b.start.z + pressed.at.z - pressed.p.z
           /\ a.end.x = b.end.x + pressed.at.x - pressed.p.x
           /\ a.end.z = b.end.z + pressed.at.z - pressed.p.z
           /\ a.start.y = b.start.y /\ a.end.y = b.end.y
           /\ Len(annotations) = Len(pressed.before)

\* The rectangle drawn from (0,0,0) to (10,0,5), moved by (2,0,3), is stored
\* with start = (2,0,3) and end = (12,0,8).
C12_Witness ==
  /\ MoveHeld
  /\ FindAnn(pressed.before, selectedAnnId).type = "rectangle"
  /\ FindAnn(pressed.before, selectedAnnId).start = Vec(0, 0, 0)
  /\ FindAnn(pressed.before, selectedAnnId).end = Vec(10, 0, 5)
  /\ pressed.p = Vec(0, 0, 0)
  /\ pressed.at = Vec(2, 0, 3)
  /\ FindAnn(annotations, selectedAnnId).start = Vec(2, 0, 3)
  /\ FindAnn(annotations, selectedAnnId).end = Vec(12, 0, 8)

\* C13: every stored square is rendered with its width equal to its height,
\* both the larger of |end.x - start.x| and |end.z - start.z|, whatever its
\* stored corners are (the rendering is a function of the annotation and
\* leaves the stored corners as they are).
C13_SquareRenderedSquare ==
  \A i \in DOMAIN annotations :
    annotations[i].type = "square" =>
      LET a == annotations[i]
          dx == IF a.end.x >= a.start.x THEN a.end.x - a.start.x
                ELSE a.start.x - a.end.x
          dz == IF a.end.z >= a.start.z THEN a.end.z - a.start.z
                ELSE a.start.z - a.end.z
          r == renderRectOrSquare(a)
      IN /\ r.w = r.h
         /\ r.w = (IF dx >= dz THEN dx ELSE dz)

\* A square is stored with asymmetric corners.
C13_Witness ==
  \E i \in DOMAIN annotations :
    /\ annotations[i].type = "square"
    /\ annotations[i].end.x - annotations[i].start.x
         # annotations[i].end.z - annotations[i].start.z
    /\ annotations[i].end.x # annotations[i].start.x


IdsOf(ids) == {ids[i] : i \in DOMAIN ids}

MembersKey(feature) ==
  IF feature = "passingNet" THEN "passingNetPlayerIds" ELSE "coveredAreaPlayerIds"

ToggledTwice(team, feature, playerId) ==
  togglePlayerSelection(togglePlayerSelection(Cur, team, feature, playerId),
                        team, feature, playerId)

\* C14: for every team, feature and player id, and every membership list
\* reached, two calls of togglePlayerSelection with the same arguments give a
\* list with the same set of ids as before, change no other field of that
\* team's options and change nothing in the other team's options.
C14_ToggleTwiceSameSet ==
  \A team \in {"A", "B"}, feature \in {"passingNet", "coveredArea"},
     playerId \in TeamIds :
    LET twice == ToggledTwice(team, feature, playerId)
        opt == OptionsOf(team)
        other == OptionsOf(IF team = "A" THEN "B" ELSE "A")
    IN /\ IdsOf(twice[opt][MembersKey(feature)]) = IdsOf(Cur[opt][MembersKey(feature)])
       /\ DOMAIN twice[opt] = DOMAIN Cur[opt]
       /\ \A k \in DOMAIN Cur[opt] \ {MembersKey(feature)} : twice[opt][k] = Cur[opt][k]
       /\ twice[other] = Cur[other]

\* A list of three members or more whose order the two calls change: the id
\* toggled is a member, is removed and is appended again at the end.
C14_Witness ==
  /\ Len(teamAOptions.coveredAreaPlayerIds) >= 3
  /\ teamAOptions.passingNetPlayerIds # << >>
  /\ teamBOptions.passingNetPlayerIds # << >>
  /\ \E playerId \in TeamIds :
       /\ Includes(teamAOptions.coveredAreaPlayerIds, playerId)
       /\ ToggledTwice("A", "coveredArea", playerId).teamAOptions.coveredAreaPlayerIds
            # teamAOptions.coveredAreaPlayerIds

\* The team's players whose id is in the list, as indices of the team's
\* players.
SelectedOf(ps, playerIds) == {i \in DOMAIN ps : Includes(playerIds, ps[i].id)}

\* C15: for a team whose passing net is shown, with n the number of the
\* team's players whose id is in passingNetPlayerIds, exactly n(n-1)/2 line
\* segments are rendered, one for each unordered pair of distinct selected
\* players and none twice, and none when n < 2.
C15_PassingNetPairs ==
  \A team \in {"A", "B"} :
    Cur[OptionsOf(team)].showPassingNet =>
      LET ps == TeamPlayersOf(players, team)
          sel == SelectedOf(ps, Cur[OptionsOf(team)].passingNetPlayerIds)
          n == Cardinality(sel)
          lines == ScenePassingNet(Cur, team)
      IN /\ 2 * Len(lines) = n * (n - 1)
         /\ n < 2 => lines = << >>
         /\ \A i, j \in sel :
              i < j =>
                Cardinality({ k \in DOMAIN lines :
                                { lines[k][1], lines[k][2] }
                                  = { ps[i].position, ps[j].position } }) = 1

\* Team A's net is shown with three selected players, at distinct positions,
\* and has three segments; team B's net is shown with two.
C15_Witness ==
  /\ teamAOptions.showPassingNet
  /\ Cardinality(SelectedOf(TeamPlayersOf(players, "A"), teamAOptions.passingNetPlayerIds)) = 3
  /\ Len(ScenePassingNet(Cur, "A")) = 3
  /\ teamBOptions.showPassingNet
  /\ Len(ScenePassingNet(Cur, "B")) = 1

\* A position as a vertex of the covered area, in the units of the hull.
VertexAt(position) ==
  [x |-> smoothingFactor.den * position.x, z |-> smoothingFactor.den * position.z]

\* C16: the covered-area polygon is produced only when at least 3 of the
\* team's players are in coveredAreaPlayerIds (none for 0, 1 or 2 members);
\* for exactly 3 members its vertices are exactly the 3 players' current
\* positions, with no inserted points.
C16_CoveredAreaFromThree ==
  \A team \in {"A", "B"} :
    LET ps == TeamPlayersOf(players, team)
        ids == Cur[OptionsOf(team)].coveredAreaPlayerIds
        sel == SelectedOf(ps, ids)
        n == Cardinality(sel)
        area == CoveredArea(ps, ids)
    IN /\ n < 3 => area = << >> /\ SceneCoveredArea(Cur, team) = << >>
       /\ SceneCoveredArea(Cur, team) # << >> => n >= 3
       /\ n = 3 => /\ Len(area) = 3
                   /\ {area[k] : k \in 1..3} = {VertexAt(ps[i].position) : i \in sel}

\* Team A's covered area is shown for exactly three members, picked in
\* another order than the roster's.
C16_Witness ==
  /\ teamAOptions.showCoveredArea
  /\ teamAOptions.coveredAreaPlayerIds = << "A11", "A2", "A6" >>
  /\ Len(SceneCoveredArea(Cur, "A")) = 3

\* The angle around the centroid of the positions of a vertex v held in
\* units of 1 / k.
AngleAround(points, v, k) ==
  LET n == Len(points)
      sum == SumPoints(points)
  IN Atan2(n * v.z - k * sum.z, n * v.x - k * sum.x)

\* C17: for n >= 4 selected players the hull-smoothing step returns exactly
\* 2n vertices: the n player positions in the order of their angle around the
\* centroid, each followed by one inserted point that is the midpoint of that
\* position and the next position in the cyclic order.  Vertices are in
\* units of 1 / smoothingFactor.den, and a midpoint is stated doubled.
C17_HullInsertsMidpoints ==
  \A team \in {"A", "B"} :
    LET active == ActivePlayers(TeamPlayersOf(players, team),
                                Cur[OptionsOf(team)].coveredAreaPlayerIds)
        points == [i \in DOMAIN active |-> active[i].position]
        n == Len(active)
        den == smoothingFactor.den
        hull == getConvexHull(active)
        at(i) == hull[2 * i - 1]
        next(i) == hull[2 * (i % n) + 1]
    IN n >= 4 =>
         /\ Len(hull) = 2 * n
         /\ {at(i) : i \in 1..n} = {InUnits(points[i], den) : i \in 1..n}
         /\ \A i \in 1..(n - 1) :
              ~AngleLess(AngleAround(points, next(i), den),
                         AngleAround(points, at(i), den))
         /\ \A i \in 1..n :
              InUnits(hull[2 * i], 2) = Add(at(i), next(i))

\* C18: while an annotation is selected, a left or right pointer-down on the
\* field clears the selection (no annotation selected, selection mode off)
\* and leaves the nav lock at its value before the selection, whatever tool
\* is active; the selection was made from rest by right-clicks on
\* annotations.
C18_FieldPressClearsSelection ==
  [][(/\ selectedAnnId # null
      /\ selLock # NoSel
      /\ pressed = NoPress /\ pressed' # NoPress
      /\ pressed'.target = "field"
      /\ pressed'.button \in {0, 2})
     => /\ selectedAnnId' = null
        /\ ~isSelecting'
        /\ isNavLocked' = selLock.lock]_vars

\* The last event was a key-down of one of the delete keys.
DeletePressed == keyed # NoKey /\ keyed.key \in {"Delete", "Backspace"}

\* The list without its entry of the given id, the others in their order.
Without(anns, id) ==
  LET at == {i \in DOMAIN anns : anns[i].id = id}
  IN IF Cardinality(at) # 1 THEN anns
     ELSE LET i == CHOOSE k \in at : TRUE
          IN [j \in 1..(Len(anns) - 1) |-> IF j < i THEN anns[j] ELSE anns[j + 1]]

\* C19: a key-down of Delete or Backspace while an annotation is selected
\* removes exactly that annotation from the list, the others staying in
\* their order, and leaves no annotation selected; while nothing is selected
\* it changes nothing.  (A selected id whose annotation the Clear button has
\* removed names no annotation: the list stays as it is.)
C19_DeleteRemovesSelected ==
  DeletePressed =>
    IF keyed.before.selectedAnnId # null
    THEN /\ annotations = Without(keyed.before.annotations, keyed.before.selectedAnnId)
         /\ FindAnn(keyed.before.annotations, keyed.before.selectedAnnId) # NoAnn
              => Len(annotations) = Len(keyed.before.annotations) - 1
         /\ selectedAnnId = null
    ELSE Cur = keyed.before

\* Backspace removed the second of three annotations.
C19_Witness ==
  /\ DeletePressed
  /\ keyed.key = "Backspace"
  /\ keyed.before.selectedAnnId = "ann_2"
  /\ Len(keyed.before.annotations) = 3
  /\ Len(annotations) = 2
  /\ annotations[1].id = "ann_1" /\ annotations[2].id = "ann_3"

\* The last event was a key-down of the Space key.
SpacePressed == keyed # NoKey /\ keyed.key = "Space"

\* The element is a text input, a textarea or a content-editable element.
TextEntry(el) ==
  \/ el.tagName = "INPUT" /\ el.type = "text"
  \/ el.tagName = "TEXTAREA"
  \/ el.isContentEditable

\* C20: a Space key-down flips the nav lock exactly when the focused element
\* is not a text input, a textarea or a content-editable element, and leaves
\* it unchanged when such an element has the focus; two Space presses in a
\* row outside such elements leave the lock at its value before the first.
C20_SpaceFlipsOutsideTextEntry ==
  SpacePressed =>
    /\ isNavLocked = IF TextEntry(keyed.active) THEN keyed.before.isNavLocked
                     ELSE ~keyed.before.isNavLocked
    /\ (/\ keyed.first # NoSel
        /\ ~TextEntry(keyed.first.active)
        /\ ~TextEntry(keyed.active)) => isNavLocked = keyed.first.lock

\* The ids and teams of a list of players, in the list's order.
RosterOf(ps) == [i \in DOMAIN ps |-> << ps[i].id, ps[i].teamId >>]

\* C21: under every sequence of edits through the edit panel, position
\* updates from drags, team-option changes and annotation operations, the
\* roster keeps the same players: the ids and teams of the list, its length
\* and its order never change.
C21_RosterFixed == RosterOf(players) = RosterOf(INITIAL_PLAYERS)

\* A player was dragged and edited in its name and number, a team list has
\* a member and an annotation exists.
C21_Witness ==
  /\ \E i \in DOMAIN players :
       /\ players[i].position # INITIAL_PLAYERS[i].position
       /\ players[i].name = "Ana"
       /\ players[i].number = 0
  /\ teamAOptions.passingNetPlayerIds # << >>
  /\ annotations # << >>

\* C22: in every reachable state, every id in a team's passingNetPlayerIds
\* and coveredAreaPlayerIds is the id of an existing player of that team.
C22_MembersAreTeamPlayers ==
  \A team \in {"A", "B"}, feature \in {"passingNet", "coveredArea"} :
    \A id \in IdsOf(Cur[OptionsOf(team)][MembersKey(feature)]) :
      \E i \in DOMAIN players : players[i].id = id /\ players[i].teamId = team

\* Both teams have members in their lists, team A in both of its lists.
C22_Witness ==
  /\ Len(teamAOptions.passingNetPlayerIds) >= 2
  /\ Len(teamAOptions.coveredAreaPlayerIds) >= 2
  /\ Len(teamBOptions.passingNetPlayerIds) >= 2

\* new is old with the fields of patch overwritten.
Overwritten(old, patch, new) ==
  /\ DOMAIN new = DOMAIN old \cup DOMAIN patch
  /\ \A k \in DOMAIN new :
       new[k] = IF k \in DOMAIN patch THEN patch[k] ELSE old[k]

\* new is the list old with its entries of the given id patched, and its
\* other entries, its order and its length as they were.
OnlyPatched(old, id, patch, new) ==
  /\ Len(new) = Len(old)
  /\ \A i \in DOMAIN old :
       IF old[i].id = id THEN Overwritten(old[i], patch, new[i])
       ELSE new[i] = old[i]
  /\ (\A i \in DOMAIN old : old[i].id # id) => new = old

C24_StartIgnoredWhileActive ==
  [][(pressed = NoPress /\ pressed' # NoPress) =>
       /\ (pressed'.target = "player" /\ activeDragId # null)
            => /\ activeDragId' = activeDragId
               /\ selectedPlayerId' = selectedPlayerId
       /\ (pressed'.target = "field" /\ activeTool \in ShapeTools /\ drawingId # null)
            => /\ Len(annotations') = Len(annotations)
               /\ drawingId' = drawingId]_vars

\* C25: a pointer-down on a player with the left button and no active tool
\* makes that player the dragged and the selected one and takes the drag
\* lock (with the lock's value snapshotted when no drag lock was held);
\* with a tool active or with another button it leaves activeDragId,
\* selectedPlayerId, the drag-lock flag and its snapshot as they were and
\* does not turn the nav lock on.
C25_PlayerDragOnlyLeftNoTool ==
  [][\A e \in PointerEvents(GrabInputs.buttons, GrabInputs.points),
        id \in GrabInputs.players, h \in GrabInputs.hits :
       PlayerPointerDown(GrabInputs, e, id, h) =>
         IF e.button = 0 /\ activeTool = null
         THEN /\ activeDragId' = id
              /\ selectedPlayerId' = id
              /\ didLockForPlayerDragRef'
              /\ ~didLockForPlayerDragRef
                   => prevNavLockBeforePlayerDragRef' = isNavLocked
         ELSE /\ activeDragId' = activeDragId
              /\ selectedPlayerId' = selectedPlayerId
              /\ didLockForPlayerDragRef' = didLockForPlayerDragRef
              /\ prevNavLockBeforePlayerDragRef' = prevNavLockBeforePlayerDragRef
              /\ isNavLocked' => isNavLocked]_vars

\* A6 is selected and at rest, the erase tool is active, and a press on a
\* player with the left button is in progress that started no drag.
C25_Witness ==
  /\ pressed # NoPress
  /\ pressed.target = "player"
  /\ pressed.button = 0
  /\ pressed.began = "none"
  /\ activeTool = "erase"
  /\ selectedPlayerId = "A6"
  /\ activeDragId = null
  /\ ~didLockForPlayerDragRef
  /\ ~isNavLocked

\* The transform mode the body of annotation a starts with.
BodyMode(a, alt) ==
  IF a.type = "circle" THEN "move" ELSE IF alt THEN "rotate" ELSE "move"

\* The fields of an annotation of the given type that a transform in the
\* given mode updates.
ModeFields(type, mode) ==
  IF type = "arrow"
  THEN IF mode = "arrow-from" THEN {"from"}
       ELSE IF mode \in {"arrow-to", "rotate"} THEN {"to"}
       ELSE {"from", "to"}
  ELSE IF type = "circle"
  THEN IF mode = "resize" THEN {"radius"} ELSE {"center"}
  ELSE IF mode = "rotate" THEN {"rotation"} ELSE {"start", "end"}

\* The fields in which annotation b differs from annotation a.
ChangedFields(a, b) ==
  {f \in DOMAIN b : f \notin DOMAIN a \/ a[f] # b[f]}

\* C26: a left pointer-down on the body of the selected annotation starts a
\* transform whose mode is move for a circle and, for a rectangle, a square
\* or an arrow, rotate if Alt is held at that moment and move otherwise;
\* from then until the gesture ends the mode stays the one the gesture
\* started with, whatever happens to Alt, and every step changes only the
\* fields of the transformed annotation that belong to that mode.
C26_ModeFixedAtStart ==
  [][/\ (/\ pressed = NoPress /\ pressed' # NoPress
         /\ pressed'.target = "annotation" /\ pressed'.began = "transform"
         /\ selectionDragRef' # NoDrag)
          => /\ selectionDragRef'.mode
                  = BodyMode(FindAnn(annotations, selectedAnnId), isAlt)
             /\ selectionDragMode' = selectionDragRef'.mode
     /\ (/\ pressed # NoPress /\ pressed' # NoPress
         /\ pressed.began = "transform" /\ selectionDragRef # NoDrag)
          => /\ selectionDragRef' = selectionDragRef
             /\ selectionDragMode' = selectionDragMode
             /\ ChangedFields(FindAnn(annotations, selectionDragRef.annId),
                              FindAnn(annotations', selectionDragRef.annId))
                  \subseteq ModeFields(selectionDragRef.shapeType,
                                       selectionDragRef.mode)]_vars

\* A pointer event of the run whose ray gives no ground point, at a place
\* where the handler asks for the point: a left press on the field with a
\* drawing or erase tool, a left press on the selected annotation or on one
\* of its handles, or a pointer move.
NoPointEvent ==
  LET I == NoPointInputs
      e == [button |-> 0, p |-> NoPoint]
  IN \/ activeTool \notin {null, "select"} /\ FieldPointerDown(I, e)
     \/ \E i \in 1..I.maxAnnotations, part \in I.parts, h \in I.hits :
          /\ isSelecting
          /\ i \in DOMAIN annotations
          /\ annotations[i].id = selectedAnnId
          /\ AnnotationPointerDown(I, e, i, part, h)
     \/ \E i \in 1..I.maxAnnotations, mode \in I.modes, h \in I.hits :
          HandlePointerDown(I, e, i, mode, h)
     \/ \E level \in I.levels : PointerMove(I, level, NoPoint)

\* C27: a pointer event whose ray gives no ground point leaves the
\* annotations, the players, drawingId, selectionDragMode, the annotation
\* selection and the nav lock as they were.
C27_NoPointIsNoOp ==
  [][NoPointEvent =>
       /\ annotations' = annotations
       /\ players' = players
       /\ drawingId' = drawingId
       /\ selectionDragMode' = selectionDragMode
       /\ selectedAnnId' = selectedAnnId
       /\ isSelecting' = isSelecting
       /\ isNavLocked' = isNavLocked]_vars

\* C28: in every reachable state, selection mode is on exactly when an
\* annotation id is selected.
C28_SelectingIffSelected ==
  isSelecting <=> (selectedAnnId # null)

\* C29: when the selected annotation stops existing, and the nav lock was
\* false before it was selected, the nav lock is false once the removal is
\* processed.
C29_LockReleasedWithAnnotation ==
  [][(/\ selLock # NoSel
      /\ ~selLock.lock
      /\ FindAnn(annotations, selectedAnnId) # NoAnn
      /\ FindAnn(annotations', selectedAnnId) = NoAnn)
       => ~isNavLocked']_vars

\* C30: a Delete or Backspace key-down that occurs while a text input has
\* the focus leaves the annotation list as it was.
C30_DeleteIgnoredInTextInput ==
  (/\ keyed # NoKey
   /\ keyed.key \in {"Delete", "Backspace"}
   /\ keyed.active = TextInput)
    => annotations = keyed.before.annotations

====
